---- MODULE Spec2Model ----
(***************************************************************************)
(* Hub-side reconciliation of a Subscription (pkg/controller/mcmhub/hub.go) *)
(* against an API store holding Subscriptions, Deployables, the channel    *)
(* and the channel's catalog of Deployables.                               *)
(*                                                                         *)
(* One reconciliation cycle (doMCMHubReconcile) is one action: the code is  *)
(* sequential and every store call completes before the next one starts.   *)
(* The outcome of every store call (success or failure) is an input of the  *)
(* cycle.  Users, the spoke agents and the clock are the environment.       *)
(***************************************************************************)
EXTENDS Integers, Sequences, FiniteSets, TLC

VARIABLES
    subs,      \* store: subscription name -> <<>> (absent) or <<subscription>>
    dpls,      \* store: Deployable name (subscription namespace) -> <<>> or <<deployable>>
    catalog,   \* Deployables of the channel namespace (the catalog artifacts)
    channel,   \* generation of the Channel object
    edits,     \* number of environment changes so far
    failures,  \* number of store calls that failed so far
    last       \* record of the most recent step (what the last cycle did)

vars == <<subs, dpls, catalog, channel, edits, failures, last>>

----------------------------------------------------------------------------
(* Bounds of the model *)

MaxEdits == 1        \* environment changes in one behaviour
MaxChannelGen == 2   \* highest channel generation
MaxFailures == 1     \* failing store calls in one behaviour
MaxStreak == 4       \* consecutive writing cycles of one subscription that are counted

----------------------------------------------------------------------------
(* Names *)

SubNames == {"a", "a-target"}
\* the subscription its user edits, and the one it names as rollout target
Edited == "a"
RolloutTarget == "a-target"
Namespace == "ns"
ChannelNamespace == "ch"
ChannelRef == "ch/dev"
Clusters == {"c1", "c2"}

NoPlacement == ""
Placements == {"pl1", "pl2"}

SubscriptionPropagated == "Propagated"
DeployableFailed == "Failed"
DeployableDeployed == "Deployed"

PrimaryName(name) == name \o "-deployable"
TargetName(name) == name \o "-target-deployable"
DplNames == {PrimaryName(s) : s \in SubNames} \cup {TargetName(s) : s \in SubNames}

NamespacedName(ns, name) == ns \o "/" \o name

UIDOf(name) == "uid-" \o name

Range(f) == {f[i] : i \in DOMAIN f}

AnnoGet(m, k) == IF k \in DOMAIN m THEN m[k] ELSE ""

NoAnnotations == [k \in {} |-> ""]

----------------------------------------------------------------------------
(* The catalog: Deployables published in the channel namespace *)

ArtifactP1 ==
    [name |-> "p1",
     annotations |-> [k \in {"tier"} |-> "gold"],
     tplAnnotations |-> NoAnnotations,
     hasTemplate |-> TRUE]
ArtifactP2 ==
    [name |-> "p2",
     annotations |-> NoAnnotations,
     tplAnnotations |-> [k \in {"tier"} |-> "gold"],
     hasTemplate |-> TRUE]
Artifacts == {ArtifactP1, ArtifactP2}

ArtifactKey(d) == NamespacedName(ChannelNamespace, d.name)
Keys == {ArtifactKey(d) : d \in Artifacts}

----------------------------------------------------------------------------
(* Overrides of a subscription: clusterName "/" is the global one *)

OpPackageP1 == [path |-> "package", value |-> "p1"]
OpPackageP2 == [path |-> "package", value |-> "p2"]
OpChannel == [path |-> "channel", value |-> "ch/qa"]
OpMalformed == [path |-> "", value |-> ""]

OvGlobal1 == [clusterName |-> "/", clusterOverrides |-> <<OpPackageP1>>]
OvGlobal2 == [clusterName |-> "/", clusterOverrides |-> <<OpPackageP2>>]
OvCluster == [clusterName |-> "c1", clusterOverrides |-> <<OpChannel>>]
OvBad == [clusterName |-> "/", clusterOverrides |-> <<OpMalformed>>]

OverrideChoices ==
    {<<>>, <<OvCluster>>, <<OvGlobal2, OvCluster, OvGlobal1>>, <<OvBad>>}

----------------------------------------------------------------------------
(* Package filters *)

NoFilter == <<>>
FilterTier == <<[annotations |-> [k \in {"tier"} |-> "gold"], version |-> "", labelSelectorOk |-> TRUE]>>
FilterChoices == {NoFilter, FilterTier}

----------------------------------------------------------------------------
(* Statuses *)

\* a Go map: nil, or a (possibly empty) map
NilMap == [nil |-> TRUE, m |-> <<>>]
MakeMap(f) == [nil |-> FALSE, m |-> f]

\* timestamps are kept relative to the clock: the current instant (what
\* metav1.Now() returns), or an earlier one
Now == "now"
Earlier == "earlier"

EmptyStatus ==
    [phase |-> "", message |-> "", reason |-> "", lastUpdateTime |-> Earlier,
     statuses |-> NilMap]

\* per-cluster status of a subscription: <<>> is the nil pointer
PerClusterSubscribed == <<[packages |-> "Subscribed"]>>
PerClusterEmpty == <<[packages |-> ""]>>

\* resource-status payload reported by a cluster: <<>> is no payload
PayloadSubscribed == <<[decodes |-> TRUE, slash |-> PerClusterSubscribed]>>
PayloadNoSlash == <<[decodes |-> TRUE, slash |-> <<>>]>>
PayloadGarbage == <<[decodes |-> FALSE, slash |-> <<>>]>>

EmptyDplStatus == [phase |-> "", propagatedStatus |-> <<>>]

\* what one cluster reports
ClusterDeployed(payload) == [phase |-> DeployableDeployed, resourceStatus |-> payload]
ClusterPending == [phase |-> "", resourceStatus |-> <<>>]

\* the Deployable failed after a cluster had deployed it
StatusFailed ==
    [phase |-> DeployableFailed,
     propagatedStatus |-> [c \in {"c1"} |-> ClusterDeployed(PayloadSubscribed)]]
\* one cluster has deployed and reports its status, the other has not yet
StatusTwoClusters ==
    [phase |-> "Propagated",
     propagatedStatus |-> [c \in {"c1", "c2"} |->
                              IF c = "c1" THEN ClusterDeployed(PayloadSubscribed)
                              ELSE ClusterPending]]
\* deployed clusters that report no payload, or a payload without a "/" entry
StatusNoPayload ==
    [phase |-> "Propagated",
     propagatedStatus |-> [c \in {"c1", "c2"} |->
                              IF c = "c1" THEN ClusterDeployed(<<>>)
                              ELSE ClusterDeployed(PayloadNoSlash)]]
\* a deployed cluster whose payload does not decode, next to one whose does
StatusGarbage ==
    [phase |-> "Propagated",
     propagatedStatus |-> [c \in {"c1", "c2"} |->
                              IF c = "c1" THEN ClusterDeployed(PayloadGarbage)
                              ELSE ClusterDeployed(PayloadSubscribed)]]

DplStatusChoices ==
    {EmptyDplStatus, StatusFailed, StatusTwoClusters, StatusNoPayload, StatusGarbage}

----------------------------------------------------------------------------
(* The record of the last step *)

NoCycle ==
    [kind |-> "env", sub |-> "", fails |-> {}, calls |-> <<>>, err |-> FALSE,
     exit |-> "", pre |-> <<>>, desired |-> <<>>, target |-> <<>>,
     allDpls |-> {}, prev |-> "none", streak |-> 0]

NewSubscription(name, placement, rolling, filter) ==
    [name |-> name, uid |-> UIDOf(name), channel |-> ChannelRef,
     package |-> "", packageFilter |-> filter,
     placement |-> placement, overrides |-> <<>>,
     annoDeployables |-> <<>>, annoRollingTarget |-> rolling,
     status |-> EmptyStatus]

----------------------------------------------------------------------------
(* Package Filter Evaluator *)

\* subutil.SemverCheck for the range "1.2.x" and the versions of the catalog
SemverCheck(vsub, vdpl) ==
    /\ vsub = "1.2.x"
    /\ vdpl \in {"1.2.0", "1.2.9"}

\* the annotations the filter looks at: the artifact's own, completed by the
\* template's for the keys whose artifact-level value is the empty string
MergedAnnotations(dpl) ==
    LET own == dpl.annotations
        tpl == IF dpl.hasTemplate THEN dpl.tplAnnotations ELSE NoAnnotations
    IN [k \in DOMAIN own \cup {j \in DOMAIN tpl : AnnoGet(own, j) = ""} |->
            IF AnnoGet(own, k) = "" /\ k \in DOMAIN tpl THEN tpl[k] ELSE own[k]]

checkDeployableBySubcriptionPackageFilter(sub, dpl) ==
    IF sub.packageFilter = <<>> THEN TRUE
    ELSE LET filter == sub.packageFilter[1]
             dplanno == MergedAnnotations(dpl)
         IN /\ ~(sub.package # "" /\ sub.package # dpl.name)
            /\ \A k \in DOMAIN filter.annotations :
                   AnnoGet(dplanno, k) = filter.annotations[k]
            /\ (filter.version # "" =>
                   SemverCheck(filter.version,
                               IF DOMAIN dpl.annotations = {} THEN ""
                               ELSE AnnoGet(dplanno, "version")))

\* the keys of the matched artifacts; the empty map when the label selector
\* does not convert or the List call fails
getSubscriptionDeployables(sub, cat, F) ==
    IF sub.packageFilter # <<>> /\ ~sub.packageFilter[1].labelSelectorOk THEN {}
    ELSE IF "list" \in F THEN {}
    ELSE {ArtifactKey(d) : d \in {x \in cat : checkDeployableBySubcriptionPackageFilter(sub, x)}}

----------------------------------------------------------------------------
(* Store calls issued by a cycle *)

Call(verb, kind, name, ok) == [verb |-> verb, kind |-> kind, name |-> name, ok |-> ok]

\* all orders in which a Go map with these keys can be iterated
Orders(S) == {q \in UNION {[1..n -> S] : n \in {Cardinality(S)}} : Range(q) = S}

----------------------------------------------------------------------------
(* Bookkeeping annotation *)

\* strings.Split of the annotation: the annotation is kept as the list of its
\* comma-separated segments, the empty string being the empty list
AnnotationKeys(sub) == Range(sub.annoDeployables)

\* faulty variant: only added keys are noticed
AnnotationChangedAddedOnly(allDpls, orgdplmap) == \E k \in allDpls : k \notin orgdplmap

AnnotationChanged(allDpls, orgdplmap) ==
    \/ \E k \in allDpls : k \notin orgdplmap
    \/ orgdplmap \ allDpls # {}

ListAttempted(sub) == sub.packageFilter = <<>> \/ sub.packageFilter[1].labelSelectorOk

\* [updated, sub (in memory), stored (subscription in the store), calls, allDpls,
\*  tried (the store calls the step issued)]
UpdateDeployablesAnnotation(sub, cat, F, order) ==
    LET orgdplmap == AnnotationKeys(sub)
        allDpls == getSubscriptionDeployables(sub, cat, F)
        updated == AnnotationChanged(allDpls, orgdplmap)
        newsub == [sub EXCEPT !.annoDeployables = order]
        ok == "updateSub" \notin F
    IN IF updated
       THEN [updated |-> TRUE, sub |-> newsub,
             stored |-> IF ok THEN newsub ELSE sub,
             calls |-> <<Call("update", "Subscription", sub.name, ok)>>,
             allDpls |-> allDpls,
             tried |-> (IF ListAttempted(sub) THEN {"list"} ELSE {}) \cup {"updateSub"}]
       ELSE [updated |-> FALSE, sub |-> sub, stored |-> sub, calls |-> <<>>,
             allDpls |-> allDpls,
             tried |-> IF ListAttempted(sub) THEN {"list"} ELSE {}]

----------------------------------------------------------------------------
(* Override Merge Engine and Deployable Synthesizer *)

\* json.Marshal of a typed object and of an unstructured one give different
\* bytes for the same document; json.Unmarshal gives the document back
MarshalStruct(doc) == [enc |-> "struct", doc |-> doc]
MarshalMap(doc) == [enc |-> "map", doc |-> doc]
Unmarshal(raw) == raw.doc

\* dplutils.OverrideTemplate: the operations in order; <<>> when one cannot
\* be applied
RECURSIVE OverrideTemplate(_, _)
OverrideTemplate(doc, ops) ==
    IF ops = <<>> THEN <<doc>>
    ELSE IF Head(ops).path \notin DOMAIN doc THEN <<>>
    ELSE OverrideTemplate([doc EXCEPT ![Head(ops).path] = Head(ops).value], Tail(ops))

\* strconv.FormatInt
FormatInt(n) == ToString(n)

\* GetChannelGeneration: "" for a failed lookup
GetChannelGeneration(chan, fail) == IF fail THEN "" ELSE FormatInt(chan)

\* the clone of the subscription that becomes the template payload
TemplateClone(sub, rootName, chng) ==
    [kind |-> "Subscription", name |-> rootName, namespace |-> Namespace,
     annoSubscription |-> NamespacedName(Namespace, rootName),
     annoChannelGeneration |-> chng,
     channel |-> sub.channel, package |-> sub.package,
     packageFilter |-> sub.packageFilter,
     placementLocal |-> TRUE, overrides |-> <<>>, status |-> EmptyStatus]

\* faulty variant: the "/" entries are carried to the Deployable as well
RECURSIVE ApplyOverridesCarryAll(_, _, _)
ApplyOverridesCarryAll(raw, carried, ovs) ==
    IF ovs = <<>> THEN [err |-> FALSE, raw |-> raw, overrides |-> carried]
    ELSE LET ov == Head(ovs)
         IN IF ov.clusterName = "/"
            THEN LET out == OverrideTemplate(Unmarshal(raw), ov.clusterOverrides)
                 IN IF out = <<>>
                    THEN [err |-> TRUE, raw |-> raw, overrides |-> carried]
                    ELSE ApplyOverridesCarryAll(MarshalMap(out[1]), Append(carried, ov), Tail(ovs))
            ELSE ApplyOverridesCarryAll(raw, Append(carried, ov), Tail(ovs))

\* lines 394-421: [err, raw, overrides]
RECURSIVE ApplyOverrides(_, _, _)
ApplyOverrides(raw, carried, ovs) ==
    IF ovs = <<>> THEN [err |-> FALSE, raw |-> raw, overrides |-> carried]
    ELSE LET ov == Head(ovs)
         IN IF ov.clusterName = "/"
            THEN LET out == OverrideTemplate(Unmarshal(raw), ov.clusterOverrides)
                 IN IF out = <<>>
                    THEN [err |-> TRUE, raw |-> raw, overrides |-> carried]
                    ELSE ApplyOverrides(MarshalMap(out[1]), carried, Tail(ovs))
            ELSE ApplyOverrides(raw, Append(carried, ov), Tail(ovs))

\* <<>> on error, <<deployable>> otherwise
prepareDeployableForSubscription(sub, rootName, chan, chanFail) ==
    LET chng == IF sub.channel # "" THEN GetChannelGeneration(chan, chanFail) ELSE ""
        rawep == MarshalStruct(TemplateClone(sub, rootName, chng))
        res == ApplyOverrides(rawep, <<>>, sub.overrides)
    IN IF res.err THEN <<>>
       ELSE <<[name |-> PrimaryName(sub.name),
               annotations |-> [local |-> "false", generated |-> "true", rolling |-> ""],
               owners |-> {sub.uid},
               template |-> res.raw,
               overrides |-> res.overrides,
               placement |-> sub.placement,
               status |-> EmptyDplStatus,
               creator |-> ""]>>

----------------------------------------------------------------------------
(* reflect.DeepEqual: values of different Go types are never equal *)

Typed(type, v) == [type |-> type, v |-> v]

\* faulty variant: values of the same type are equal when their phases are
DeepEqualPhaseOnly(x, y) == x.type = y.type /\ x.v.phase = y.v.phase

DeepEqual(x, y) == x.type = y.type /\ x.v = y.v

\* SubscriptionStatus.DeepCopy returns a pointer to the copy
DeepCopyStatus(status) == Typed("*SubscriptionStatus", status)
StatusValue(status) == Typed("SubscriptionStatus", status)

----------------------------------------------------------------------------
(* Teardown *)

\* faulty variant: any owner reference counts
IsOwnedByAnyone(dpl, sub) == dpl.owners # {}

\* faulty variant: the owner's name is compared with the subscription's UID
IsOwnedByName(dpl, sub) == \E owner \in dpl.owners : owner = sub.name

IsOwnedBy(dpl, sub) == \E owner \in dpl.owners : owner = sub.uid

\* one of the two delete blocks of stopDeploySubscription:
\* [err, dpls, calls, tried]
DeleteIfOwned(sub, store, name, getSite, deleteSite, F) ==
    IF getSite \in F \/ store[name] = <<>> \/ ~IsOwnedBy(store[name][1], sub)
    THEN [err |-> FALSE, dpls |-> store, calls |-> <<>>, tried |-> {getSite}]
    ELSE LET ok == deleteSite \notin F
         IN [err |-> ~ok,
             dpls |-> IF ok THEN [store EXCEPT ![name] = <<>>] ELSE store,
             calls |-> <<Call("delete", "Deployable", name, ok)>>,
             tried |-> {getSite, deleteSite}]

\* faulty variant: the per-cluster statuses are cleared, the phase is kept
ClearedStatusKeepsPhase(status) ==
    IF status.statuses.nil THEN status
    ELSE [status EXCEPT !.statuses = MakeMap(<<>>)]

\* lines 299-311: the status after clearing
ClearedStatus(status) ==
    LET st1 == IF status.statuses.nil THEN status
               ELSE [status EXCEPT !.statuses = MakeMap(<<>>)]
    IN IF st1.phase = SubscriptionPropagated
       THEN [st1 EXCEPT !.phase = "", !.message = "", !.reason = ""]
       ELSE st1

\* line 313
TeardownStatusChanged(savest, status) == ~DeepEqual(savest, StatusValue(status))

\* [err, sub (stored), dpls, calls, tried]
stopDeploySubscription(sub, store, clock, F) ==
    LET d1 == DeleteIfOwned(sub, store, PrimaryName(sub.name),
                            "tdGetPrimary", "tdDeletePrimary", F)
        d2 == DeleteIfOwned(sub, d1.dpls, TargetName(sub.name),
                            "tdGetTarget", "tdDeleteTarget", F)
        savest == DeepCopyStatus(sub.status)
        cleared == ClearedStatus(sub.status)
        ok == "tdStatus" \notin F
    IN IF d1.err
       THEN [err |-> TRUE, sub |-> sub, dpls |-> d1.dpls, calls |-> d1.calls,
             tried |-> d1.tried]
       ELSE IF d2.err
       THEN [err |-> TRUE, sub |-> sub, dpls |-> d2.dpls, calls |-> d1.calls \o d2.calls,
             tried |-> d1.tried \cup d2.tried]
       ELSE IF TeardownStatusChanged(savest, cleared)
       THEN [err |-> ~ok,
             sub |-> IF ok THEN [sub EXCEPT !.status = [cleared EXCEPT !.lastUpdateTime = clock]]
                     ELSE sub,
             dpls |-> d2.dpls,
             calls |-> d1.calls \o d2.calls
                       \o <<Call("update", "SubscriptionStatus", sub.name, ok)>>,
             tried |-> d1.tried \cup d2.tried \cup {"tdStatus"}]
       ELSE [err |-> FALSE, sub |-> sub, dpls |-> d2.dpls, calls |-> d1.calls \o d2.calls,
             tried |-> d1.tried \cup d2.tried]

----------------------------------------------------------------------------
(* Drift reconciliation of a Deployable *)

\* found with the desired spec copied in and the bookkeeping annotations stamped
WithSpecOf(found, dpl) ==
    [found EXCEPT !.template = dpl.template, !.overrides = dpl.overrides,
                  !.placement = dpl.placement,
                  !.annotations.local = "false", !.annotations.generated = "true"]

\* line 657
TargetDiffers(dpl, found) ==
    \/ Unmarshal(dpl.template) # Unmarshal(found.template)
    \/ dpl.overrides # found.overrides

\* faulty variant: the desired Deployable always counts as different
PrimaryAlwaysDiffers(dpl, found) == TRUE

\* line 111
PrimaryDiffers(dpl, found) == Unmarshal(dpl.template) # Unmarshal(found.template)

\* the resourceVersion the store holds when the cycle's Update arrives, counted
\* from the version the cycle's Get returned: every write in between adds one
VersionAtUpdate(raced) == IF raced THEN 1 ELSE 0

\* faulty variant: the Update carries the version the store holds at that time
CarriedVersionLatest(read, current) == current

\* lines 128 and 673: the object passed to Update is the one Get filled in
CarriedVersion(read, current) == read

\* optimistic concurrency of the store: a write is applied when it carries the
\* version the store holds
StoreAccepts(carried, current) == carried = current

\* another writer of the Deployable, the status reporter: what it leaves
OtherWriter(found) ==
    [found EXCEPT !.status = IF found.status = StatusFailed THEN EmptyDplStatus
                             ELSE StatusFailed]

\* the Update of a Deployable that Get returned as found, with the spec of
\* dpl copied in; raceSite in F: another writer wrote it after the Get:
\* [ok, stored]
UpdateFound(found, dpl, raceSite, updateSite, F) ==
    LET raced == raceSite \in F
        current == VersionAtUpdate(raced)
        ok == /\ updateSite \notin F
              /\ StoreAccepts(CarriedVersion(0, current), current)
    IN [ok |-> ok,
        stored |-> IF ok THEN WithSpecOf(found, dpl)
                   ELSE IF raced THEN OtherWriter(found) ELSE found]

\* [err, dpls, calls, tried]
updateTargetSubscriptionDeployable(creator, targetSubDpl, store, F) ==
    LET name == targetSubDpl.name
    IN IF "getTargetDpl" \in F
       THEN [err |-> TRUE, dpls |-> store, calls |-> <<>>, tried |-> {"getTargetDpl"}]
       ELSE IF store[name] = <<>>
       THEN LET ok == "createTarget" \notin F
            IN [err |-> ~ok,
                dpls |-> IF ok THEN [store EXCEPT ![name] = <<[targetSubDpl EXCEPT !.creator = creator]>>]
                         ELSE store,
                calls |-> <<Call("create", "Deployable", name, ok)>>,
                tried |-> {"getTargetDpl", "createTarget"}]
       ELSE IF TargetDiffers(targetSubDpl, store[name][1])
       THEN LET u == UpdateFound(store[name][1], targetSubDpl, "raceTarget", "updateTarget", F)
            IN [err |-> ~u.ok,
                dpls |-> [store EXCEPT ![name] = <<u.stored>>],
                calls |-> <<Call("update", "Deployable", name, u.ok)>>,
                tried |-> {"getTargetDpl", "raceTarget", "updateTarget"}]
       ELSE [err |-> FALSE, dpls |-> store, calls |-> <<>>, tried |-> {"getTargetDpl"}]

\* faulty variant: a rollout target that is gone is an error
createTargetDplStrict(sub, substore, store, chan, F) ==
    LET t == sub.annoRollingTarget
        none == [err |-> FALSE, target |-> <<>>, dpls |-> store, calls |-> <<>>, tried |-> {}]
    IN IF t = "" THEN none
       ELSE IF "getTargetSub" \in F \/ t \notin DOMAIN substore \/ substore[t] = <<>>
       THEN [none EXCEPT !.err = TRUE, !.tried = {"getTargetSub"}]
       ELSE LET prep == prepareDeployableForSubscription(substore[t][1], sub.name, chan,
                                                         "getTargetChannel" \in F)
                tried == {"getTargetSub", "getTargetChannel"}
            IN IF prep = <<>>
               THEN [none EXCEPT !.err = TRUE, !.tried = tried]
               ELSE LET targetSubDpl == [prep[1] EXCEPT !.name = TargetName(sub.name)]
                        u == updateTargetSubscriptionDeployable(sub.name, targetSubDpl, store, F)
                    IN [err |-> u.err, target |-> <<targetSubDpl>>,
                        dpls |-> u.dpls, calls |-> u.calls, tried |-> tried \cup u.tried]

\* [err, target (<<>> or <<deployable>>), dpls, calls, tried]
createTargetDplForRollingUpdate(sub, substore, store, chan, F) ==
    LET t == sub.annoRollingTarget
        none == [err |-> FALSE, target |-> <<>>, dpls |-> store, calls |-> <<>>, tried |-> {}]
    IN IF t = "" THEN none
       ELSE IF "getTargetSub" \in F
       THEN [none EXCEPT !.err = TRUE, !.tried = {"getTargetSub"}]
       ELSE IF t \notin DOMAIN substore \/ substore[t] = <<>>
       THEN [none EXCEPT !.tried = {"getTargetSub"}]
       ELSE LET prep == prepareDeployableForSubscription(substore[t][1], sub.name, chan,
                                                         "getTargetChannel" \in F)
                tried == {"getTargetSub", "getTargetChannel"}
            IN IF prep = <<>>
               THEN [none EXCEPT !.err = TRUE, !.tried = tried]
               ELSE LET targetSubDpl == [prep[1] EXCEPT !.name = TargetName(sub.name)]
                        u == updateTargetSubscriptionDeployable(sub.name, targetSubDpl, store, F)
                    IN [err |-> u.err, target |-> <<targetSubDpl>>,
                        dpls |-> u.dpls, calls |-> u.calls, tried |-> tried \cup u.tried]

----------------------------------------------------------------------------
(* Status Aggregator *)

\* faulty variant: every cluster gets the empty entry
ClusterEntryEmpty(v) == PerClusterEmpty

\* lines 439-451: the per-cluster entry of one cluster
ClusterEntry(v) ==
    IF v.phase = DeployableDeployed
    THEN IF v.resourceStatus = <<>> THEN <<>> ELSE v.resourceStatus[1].slash
    ELSE PerClusterEmpty

\* faulty variant: a payload that does not decode is taken as an empty status
DecodeNeverFails(v) == FALSE

DecodeFails(v) ==
    /\ v.phase = DeployableDeployed
    /\ v.resourceStatus # <<>>
    /\ ~v.resourceStatus[1].decodes

\* faulty variant: the new status is stamped before the comparison
NewStatusTimeNow(sub, clock) == clock

\* line 455
NewStatusTime(sub, clock) == sub.status.lastUpdateTime

\* faulty variant: the clusters' entries are added to the ones already there
NewSubStatusAccumulated(sub, found, clock) ==
    LET old == sub.status.statuses
        reported == found.status.propagatedStatus
    IN [phase |-> SubscriptionPropagated, message |-> "", reason |-> "",
        lastUpdateTime |-> NewStatusTime(sub, clock),
        statuses |-> IF found.status.phase = DeployableFailed THEN NilMap
                     ELSE MakeMap([k \in DOMAIN old.m \cup DOMAIN reported |->
                                       IF k \in DOMAIN reported THEN ClusterEntry(reported[k])
                                       ELSE old.m[k]])]

\* lines 427-455
NewSubStatus(sub, found, clock) ==
    [phase |-> SubscriptionPropagated, message |-> "", reason |-> "",
     lastUpdateTime |-> NewStatusTime(sub, clock),
     statuses |-> IF found.status.phase = DeployableFailed THEN NilMap
                  ELSE MakeMap([k \in DOMAIN found.status.propagatedStatus |->
                                    ClusterEntry(found.status.propagatedStatus[k])])]

\* faulty variant: the failure of the status write is returned
StatusWriteErrorReturned(ok) == ~ok

\* lines 463-470: the failure of the status write is logged, nil is returned
StatusWriteError(ok) == FALSE

\* [err, sub (stored), calls, tried]
updateSubscriptionStatus(sub, found, clock, F) ==
    LET newsubstatus == NewSubStatus(sub, found, clock)
        ok == "statusUpdate" \notin F
    IN IF /\ found.status.phase # DeployableFailed
          /\ \E k \in DOMAIN found.status.propagatedStatus :
                 DecodeFails(found.status.propagatedStatus[k])
       THEN [err |-> TRUE, sub |-> sub, calls |-> <<>>, tried |-> {}]
       ELSE IF ~DeepEqual(StatusValue(newsubstatus), StatusValue(sub.status))
       THEN [err |-> StatusWriteError(ok),
             sub |-> IF ok THEN [sub EXCEPT !.status = [newsubstatus EXCEPT !.lastUpdateTime = clock]]
                     ELSE sub,
             calls |-> <<Call("update", "SubscriptionStatus", sub.name, ok)>>,
             tried |-> {"statusUpdate"}]
       ELSE [err |-> FALSE, sub |-> sub, calls |-> <<>>, tried |-> {}]

----------------------------------------------------------------------------
(* Initial states *)

\* a subscription that has been deployed and has rolled up the clusters' reports
DeployedDeployable ==
    LET sub == NewSubscription(Edited, "pl1", "", NoFilter)
    IN [prepareDeployableForSubscription(sub, Edited, 1, FALSE)[1] EXCEPT
           !.creator = Edited, !.status = StatusTwoClusters]

DeployedSubscription ==
    LET sub == [NewSubscription(Edited, "pl1", "", NoFilter) EXCEPT
                   !.annoDeployables = <<ArtifactKey(ArtifactP1)>>]
    IN [sub EXCEPT !.status = NewSubStatus(sub, DeployedDeployable, Earlier)]

\* a new subscription and an empty namespace
\* spec.overrides of the rollout target: none, or, where the subscription rolls
\* out to it, a global entry with a malformed operation
TargetOverrideChoices(pl, rt) ==
    IF pl = "pl1" /\ rt = RolloutTarget THEN {<<>>, <<OvBad>>} ELSE {<<>>}

FreshInit ==
    /\ \E pl \in {NoPlacement, "pl1"} :
       \E rt \in {"", RolloutTarget} :
       \E tov \in TargetOverrideChoices(pl, rt) :
          subs = [s \in SubNames |->
                     IF s = Edited THEN <<NewSubscription(s, pl, rt, NoFilter)>>
                     ELSE <<[NewSubscription(s, "pl1", "", NoFilter) EXCEPT
                                !.overrides = tov]>>]
    /\ dpls = [d \in DplNames |-> <<>>]

DeployedInit ==
    /\ subs = [s \in SubNames |->
                  IF s = Edited THEN <<DeployedSubscription>>
                  ELSE <<NewSubscription(s, "pl1", "", NoFilter)>>]
    /\ dpls = [d \in DplNames |->
                  IF d = PrimaryName(Edited) THEN <<DeployedDeployable>> ELSE <<>>]

\* the deployed subscription once the user has withdrawn its placement
WithdrawnInit ==
    /\ subs = [s \in SubNames |->
                  IF s = Edited
                  THEN <<[DeployedSubscription EXCEPT !.placement = NoPlacement]>>
                  ELSE <<NewSubscription(s, "pl1", "", NoFilter)>>]
    /\ dpls = [d \in DplNames |->
                  IF d = PrimaryName(Edited) THEN <<DeployedDeployable>> ELSE <<>>]

Init ==
    /\ FreshInit \/ DeployedInit \/ WithdrawnInit
    /\ catalog = {ArtifactP1}
    /\ channel = 1
    /\ edits = 0
    /\ failures = 0
    /\ last = NoCycle

----------------------------------------------------------------------------
(* One reconciliation cycle *)

Outcome(err, exit, sub, store, calls, tried, desired, target, allDpls) ==
    [err |-> err, exit |-> exit, sub |-> sub, dpls |-> store, calls |-> calls,
     tried |-> tried, desired |-> desired, target |-> target, allDpls |-> allDpls]

\* lines 78-141, after both Deployables are synthesized
ReconcilePrimary(sub, dpl, store, clock, F, calls, tried, target, allDpls) ==
    LET name == dpl.name
        tried1 == tried \cup {"getPrimary"}
    IN IF "getPrimary" \in F
       THEN Outcome(TRUE, "get", sub, store, calls, tried1, <<dpl>>, target, allDpls)
       ELSE IF store[name] = <<>>
       THEN LET ok == "createPrimary" \notin F
            IN Outcome(~ok, "create", sub,
                       IF ok THEN [store EXCEPT ![name] = <<[dpl EXCEPT !.creator = sub.name]>>]
                       ELSE store,
                       Append(calls, Call("create", "Deployable", name, ok)),
                       tried1 \cup {"createPrimary"},
                       <<dpl>>, target, allDpls)
       ELSE IF PrimaryDiffers(dpl, store[name][1])
       THEN LET u == UpdateFound(store[name][1], dpl, "racePrimary", "updatePrimary", F)
            IN Outcome(~u.ok, "update", sub,
                       [store EXCEPT ![name] = <<u.stored>>],
                       Append(calls, Call("update", "Deployable", name, u.ok)),
                       tried1 \cup {"racePrimary", "updatePrimary"},
                       <<dpl>>, target, allDpls)
       ELSE LET st == updateSubscriptionStatus(sub, store[name][1], clock, F)
            IN Outcome(st.err, "status", st.sub, store, calls \o st.calls,
                       tried1 \cup st.tried, <<dpl>>, target, allDpls)

\* faulty variant: the error of the target step is dropped
TargetErrorIgnored(tg) == FALSE

\* lines 60-64: the error of the target step ends the cycle
TargetError(tg) == tg.err

doMCMHubReconcile(sub, substore, store, cat, chan, clock, F, order) ==
    LET a == UpdateDeployablesAnnotation(sub, cat, F, order)
    IN IF a.updated
       THEN Outcome(FALSE, "annotation", a.stored, store, a.calls, a.tried,
                    <<>>, <<>>, a.allDpls)
       ELSE IF sub.placement = NoPlacement
       THEN LET t == stopDeploySubscription(sub, store, clock, F)
            IN Outcome(t.err, "teardown", t.sub, t.dpls, t.calls, a.tried \cup t.tried,
                       <<>>, <<>>, a.allDpls)
       ELSE LET prep == prepareDeployableForSubscription(sub, sub.name, chan, "getChannel" \in F)
                tried1 == a.tried \cup {"getChannel"}
            IN IF prep = <<>>
               THEN Outcome(TRUE, "prepare", sub, store, <<>>, tried1, <<>>, <<>>, a.allDpls)
               ELSE LET tg == createTargetDplForRollingUpdate(sub, substore, store, chan, F)
                        dpl == IF tg.target = <<>> THEN prep[1]
                               ELSE [prep[1] EXCEPT !.annotations.rolling = tg.target[1].name]
                    IN IF TargetError(tg)
                       THEN Outcome(TRUE, "target", sub, tg.dpls, tg.calls,
                                    tried1 \cup tg.tried, <<dpl>>, tg.target, a.allDpls)
                       ELSE ReconcilePrimary(sub, dpl, tg.dpls, clock, F, tg.calls,
                                             tried1 \cup tg.tried, tg.target, a.allDpls)

\* the store calls of a cycle that can fail, in the order the code reaches them;
\* raceTarget and racePrimary are the writes of another writer that arrive
\* between the Get of a Deployable and its Update
CallSites ==
    <<"list", "updateSub", "getChannel", "tdGetPrimary", "tdDeletePrimary",
      "tdGetTarget", "tdDeleteTarget", "tdStatus", "getTargetSub", "getTargetChannel",
      "getTargetDpl", "createTarget", "raceTarget", "updateTarget", "getPrimary",
      "createPrimary", "racePrimary", "updatePrimary", "statusUpdate">>

CallPosition(c) == CHOOSE i \in DOMAIN CallSites : CallSites[i] = c

\* the store calls a cycle of s issues when exactly the calls of F fail
TriedWith(s, F) ==
    doMCMHubReconcile(subs[s][1], subs, dpls, catalog, channel, Now, F, <<>>).tried

\* the calls the cycle issues after the failing ones of F
LaterCalls(s, F) ==
    {c \in TriedWith(s, F) : \A f \in F : CallPosition(f) < CallPosition(c)}

\* the sets of failing calls of one cycle: those of Fs, with at most k more
\* failing calls, each of them issued by the cycle
RECURSIVE FailureChoices(_, _, _)
FailureChoices(s, Fs, k) ==
    IF k = 0 \/ Fs = {} THEN Fs
    ELSE Fs \cup FailureChoices(s, UNION {{F \cup {c} : c \in LaterCalls(s, F)} : F \in Fs},
                                k - 1)

\* what the step before a cycle of s was: a cycle of s without a failed call
\* that issued no mutating call ("quiet") or some ("busy"), possibly followed by
\* the clock advancing, or anything else ("none")
PrevOf(s) ==
    IF last.kind = "cycle" /\ last.sub = s /\ last.fails = {} /\ ~last.err
    THEN IF last.calls = <<>> THEN "quiet" ELSE "busy"
    ELSE IF last.kind = "tick" /\ last.sub = s THEN last.prev
    ELSE "none"

\* the number of cycles of s without a failing call that ran one after the
\* other and issued a write each, the cycle with the failing calls F and the
\* calls given included, with nothing but the clock changing in between
StreakOf(s, F, calls) ==
    IF F # {} \/ calls = <<>> THEN 0
    ELSE IF last.kind \in {"cycle", "tick"} /\ last.sub = s
    THEN IF last.streak < MaxStreak THEN last.streak + 1 ELSE MaxStreak
    ELSE 1

\* a cycle of subscription s; F are the store calls that fail in it
Reconcile(s) ==
    /\ subs[s] # <<>>
    /\ \E F \in FailureChoices(s, {{}}, MaxFailures - failures) :
       \E order \in Orders(getSubscriptionDeployables(subs[s][1], catalog, F)) :
          LET sub == subs[s][1]
              r == doMCMHubReconcile(sub, subs, dpls, catalog, channel, Now, F, order)
          IN /\ subs' = [subs EXCEPT ![s] = <<r.sub>>]
             /\ dpls' = r.dpls
             /\ failures' = failures + Cardinality(F)
             /\ last' = [kind |-> "cycle", sub |-> s, fails |-> F, calls |-> r.calls,
                         err |-> r.err, exit |-> r.exit,
                         pre |-> <<[sub |-> sub,
                                    dpl |-> dpls[PrimaryName(s)],
                                    tdpl |-> dpls[TargetName(s)]]>>,
                         desired |-> r.desired, target |-> r.target,
                         allDpls |-> r.allDpls, prev |-> PrevOf(s),
                         streak |-> StreakOf(s, F, r.calls)]
    /\ UNCHANGED <<catalog, channel, edits>>

----------------------------------------------------------------------------
(* The environment: users, the spoke agents, the clock *)

\* values a user can give the annotation: empty, a key the catalog may lack,
\* a repeated key, two keys in an order of the user's choice
AnnotationChoices ==
    LET k1 == ArtifactKey(ArtifactP1)
        k2 == ArtifactKey(ArtifactP2)
    IN {<<>>, <<k2>>, <<k1, k1>>, <<k2, k1>>}

\* a timestamp of the store is of the current instant
ClockPending ==
    \E s \in SubNames :
        IF subs[s] = <<>> THEN FALSE ELSE subs[s][1].status.lastUpdateTime = Now

\* a change made by the environment, at a later instant than the last write
Edit == /\ edits < MaxEdits
        /\ ~ClockPending
        /\ edits' = edits + 1
        /\ last' = NoCycle
        /\ UNCHANGED failures

EditSub(s, new) ==
    /\ new # subs[s][1]
    /\ subs' = [subs EXCEPT ![s] = <<new>>]
    /\ Edit
    /\ UNCHANGED <<dpls, catalog, channel>>

SetPlacement(s) ==
    \E p \in Placements \cup {NoPlacement} :
        subs[s] # <<>> /\ EditSub(s, [subs[s][1] EXCEPT !.placement = p])

SetOverrides(s) ==
    \E ov \in OverrideChoices :
        subs[s] # <<>> /\ EditSub(s, [subs[s][1] EXCEPT !.overrides = ov])

SetPackageFilter(s) ==
    \E f \in FilterChoices :
        subs[s] # <<>> /\ EditSub(s, [subs[s][1] EXCEPT !.packageFilter = f])

EditAnnotation(s) ==
    \E q \in AnnotationChoices :
        subs[s] # <<>> /\ EditSub(s, [subs[s][1] EXCEPT !.annoDeployables = q])

SetRollingTarget(s) ==
    \E t \in {RolloutTarget, ""} :
        subs[s] # <<>> /\ EditSub(s, [subs[s][1] EXCEPT !.annoRollingTarget = t])

DeleteSub(s) ==
    /\ subs[s] # <<>>
    /\ subs' = [subs EXCEPT ![s] = <<>>]
    /\ Edit
    /\ UNCHANGED <<dpls, catalog, channel>>

CatalogChange ==
    /\ \E d \in Artifacts :
          catalog' = IF d \in catalog THEN catalog \ {d} ELSE catalog \cup {d}
    /\ Edit
    /\ UNCHANGED <<subs, dpls, channel>>

ChannelUpdated ==
    /\ channel < MaxChannelGen
    /\ channel' = channel + 1
    /\ Edit
    /\ UNCHANGED <<subs, dpls, catalog>>

SpokeReport(n) ==
    /\ dpls[n] # <<>>
    /\ \E st \in DplStatusChoices :
          /\ st # dpls[n][1].status
          /\ dpls' = [dpls EXCEPT ![n] = <<[dpls[n][1] EXCEPT !.status = st]>>]
    /\ Edit
    /\ UNCHANGED <<subs, catalog, channel>>

\* the clock advances: every timestamp of the store is now an earlier instant
Tick ==
    /\ \E s \in SubNames : subs[s] # <<>> /\ subs[s][1].status.lastUpdateTime = Now
    /\ subs' = [s \in SubNames |->
                   IF subs[s] = <<>> THEN <<>>
                   ELSE <<[subs[s][1] EXCEPT !.status.lastUpdateTime = Earlier]>>]
    /\ last' = IF last.kind = "env" THEN last
               ELSE [NoCycle EXCEPT !.kind = "tick", !.sub = last.sub,
                                    !.prev = PrevOf(last.sub),
                                    !.streak = last.streak]
    /\ UNCHANGED <<dpls, catalog, channel, edits, failures>>

Next ==
    \/ Reconcile(Edited)
    \/ SetPlacement(Edited)
    \/ SetOverrides(Edited)
    \/ SetPackageFilter(Edited)
    \/ EditAnnotation(Edited)
    \/ SetRollingTarget(Edited)
    \/ DeleteSub(RolloutTarget)
    \/ CatalogChange
    \/ ChannelUpdated
    \/ SpokeReport(PrimaryName(Edited))
    \/ Tick

Spec == Init /\ [][Next]_vars

----------------------------------------------------------------------------
(* The Package Filter Evaluator on its own: one subscription, one catalog
   artifact, one listing *)

\* spec.package: absent, or the name of one artifact
PackageChoices == {"", "p1"}

\* spec.packageFilter: absent, present without annotations, requiring a value,
\* requiring the empty string
FilterInputs ==
    {NoFilter} \cup
    {<<[annotations |-> a, version |-> "", labelSelectorOk |-> TRUE]>> :
        a \in {NoAnnotations, [k \in {"tier"} |-> "gold"], [k \in {"tier"} |-> ""]}}

\* metadata.annotations of an artifact and of its template
OwnAnnotationChoices ==
    {NoAnnotations} \cup {[k \in {"tier"} |-> v] : v \in {"gold", "silver", ""}}
TemplateAnnotationChoices == {NoAnnotations, [k \in {"tier"} |-> "gold"]}

ArtifactInputs ==
    [name : {"p1", "p2"}, annotations : OwnAnnotationChoices,
     tplAnnotations : TemplateAnnotationChoices, hasTemplate : BOOLEAN]

FilterInit ==
    /\ \E pkg \in PackageChoices, filter \in FilterInputs :
          subs = [s \in SubNames |->
                    IF s = Edited
                    THEN <<[NewSubscription(s, "pl1", "", filter) EXCEPT !.package = pkg]>>
                    ELSE <<>>]
    /\ \E d \in ArtifactInputs : catalog = {d}
    /\ dpls = [n \in DplNames |-> <<>>]
    /\ channel = 1
    /\ edits = 0
    /\ failures = 0
    /\ last = NoCycle

\* the listing of the catalog for subscription s, with the artifacts filtered
ListMatching(s) ==
    /\ subs[s] # <<>>
    /\ last = NoCycle
    /\ last' = [NoCycle EXCEPT
                   !.kind = "filter", !.sub = s,
                   !.pre = <<[sub |-> subs[s][1], dpl |-> <<>>, tdpl |-> <<>>]>>,
                   !.allDpls = getSubscriptionDeployables(subs[s][1], catalog, {})]
    /\ UNCHANGED <<subs, dpls, catalog, channel, edits, failures>>

FilterNext == ListMatching(Edited)

FilterSpec == FilterInit /\ [][FilterNext]_vars

----------------------------------------------------------------------------
(* Two subscriptions of one namespace, both reconciled: a subscription and
   its rollout target, which is deployed from the hub itself or not *)

PairInit ==
    /\ \E pl \in {NoPlacement, "pl1"} :
          subs = [s \in SubNames |->
                    IF s = Edited
                    THEN <<[NewSubscription(s, "pl1", RolloutTarget, NoFilter) EXCEPT
                               !.annoDeployables = <<ArtifactKey(ArtifactP1)>>]>>
                    ELSE <<[NewSubscription(s, pl, "", NoFilter) EXCEPT
                               !.annoDeployables = <<ArtifactKey(ArtifactP1)>>]>>]
    /\ dpls = [d \in DplNames |-> <<>>]
    /\ catalog = {ArtifactP1}
    /\ channel = 1
    /\ edits = 0
    /\ failures = 0
    /\ last = NoCycle

PairNext ==
    \/ Reconcile(Edited)
    \/ Reconcile(RolloutTarget)
    \/ Tick

PairSpec == PairInit /\ [][PairNext]_vars

----------------------------------------------------------------------------
(* Properties of a cycle, stated on the record of the last step *)

IsCycle == last.kind = "cycle"
CycleSub == last.sub
Pre == last.pre[1]
PrimaryOf(s) == PrimaryName(s)
TargetOf(s) == TargetName(s)

CallsWhere(verb, kind, name) ==
    {i \in DOMAIN last.calls :
        /\ last.calls[i].verb = verb
        /\ last.calls[i].kind = kind
        /\ last.calls[i].name = name}

DeployableCallsOn(name) ==
    {i \in DOMAIN last.calls :
        last.calls[i].kind = "Deployable" /\ last.calls[i].name = name}

SpecOf(d) == [template |-> d.template, overrides |-> d.overrides]

SameTemplateAndOverrides(before, after) ==
    \/ before = <<>> /\ after = <<>>
    \/ before # <<>> /\ after # <<>> /\ SpecOf(before[1]) = SpecOf(after[1])

C2_DriftUpdate ==
    (IsCycle /\ last.fails = {} /\ last.exit \in {"update", "status"})
        => LET dpl == last.desired[1]
               found == Pre.dpl[1]
               stored == dpls[PrimaryOf(CycleSub)][1]
           IN IF \/ Unmarshal(dpl.template) # Unmarshal(found.template)
                 \/ dpl.overrides # found.overrides
              THEN /\ CallsWhere("update", "Deployable", dpl.name) # {}
                   /\ SpecOf(stored) = SpecOf(dpl)
              ELSE DeployableCallsOn(dpl.name) = {}

\* C3: a teardown cycle writes the subscription status exactly once, with a
\* refreshed lastUpdateTime, when clearing changes the status, and not at all
\* when the status was already empty.
C3_TeardownStatusWrite ==
    (IsCycle /\ last.fails = {} /\ last.exit = "teardown")
        => LET writes == CallsWhere("update", "SubscriptionStatus", CycleSub)
           IN IF ClearedStatus(Pre.sub.status) # Pre.sub.status
              THEN /\ Cardinality(writes) = 1
                   /\ subs[CycleSub][1].status.lastUpdateTime = Now
              ELSE writes = {}

\* C4: a Deployable delete is issued only by a teardown cycle (placement
\* absent), only on <name>-deployable or <name>-target-deployable, and only
\* when the Deployable has an owner whose UID is the subscription's; a
\* Deployable without such an owner is left as it was by teardown.
C4_OwnerGatedDeletion ==
    IsCycle =>
        /\ \A i \in DOMAIN last.calls :
              last.calls[i].verb = "delete" =>
                  /\ Pre.sub.placement = NoPlacement
                  /\ last.calls[i].kind = "Deployable"
                  /\ \/ /\ last.calls[i].name = CycleSub \o "-deployable"
                        /\ Pre.dpl # <<>>
                        /\ Pre.sub.uid \in Pre.dpl[1].owners
                     \/ /\ last.calls[i].name = CycleSub \o "-target-deployable"
                        /\ Pre.tdpl # <<>>
                        /\ Pre.sub.uid \in Pre.tdpl[1].owners
        /\ last.exit = "teardown" =>
              /\ (Pre.dpl # <<>> /\ Pre.sub.uid \notin Pre.dpl[1].owners)
                    => dpls[CycleSub \o "-deployable"] = Pre.dpl
              /\ (Pre.tdpl # <<>> /\ Pre.sub.uid \notin Pre.tdpl[1].owners)
                    => dpls[CycleSub \o "-target-deployable"] = Pre.tdpl

C4_Witness ==
    /\ IsCycle /\ last.exit = "teardown"
    /\ CallsWhere("delete", "Deployable", CycleSub \o "-deployable") # {}
    /\ Pre.tdpl # <<>>
    /\ Pre.sub.uid \notin Pre.tdpl[1].owners
    /\ dpls[CycleSub \o "-target-deployable"] = Pre.tdpl

\* C5: when the engine created <name>-target-deployable for the subscription
\* and the placement is then absent, an error-free teardown cycle deletes the
\* target Deployable too: neither Deployable exists afterwards.
C5_TeardownRemovesTarget ==
    (/\ IsCycle /\ last.fails = {} /\ last.exit = "teardown" /\ ~last.err
     /\ Pre.tdpl # <<>>
     /\ Pre.tdpl[1].creator = CycleSub)
        => /\ dpls[TargetOf(CycleSub)] = <<>>
           /\ (Pre.dpl # <<>> /\ Pre.sub.uid \in Pre.dpl[1].owners)
                 => dpls[PrimaryOf(CycleSub)] = <<>>

\* C6 (as claimed): in every cycle on a subscription without placement and
\* with an owned primary Deployable, that Deployable is deleted by the end of
\* the cycle, whatever the bookkeeping annotation.
C6_TeardownInEveryCycle ==
    (/\ IsCycle /\ last.fails = {}
     /\ Pre.sub.placement = NoPlacement
     /\ Pre.dpl # <<>>
     /\ Pre.sub.uid \in Pre.dpl[1].owners)
        => dpls[PrimaryOf(CycleSub)] = <<>>

\* C6 (amended): in every cycle on a subscription without placement in which
\* the bookkeeping annotation needs no update and no store call fails, an owned
\* primary Deployable is deleted by the end of the cycle.
C6_TeardownWhenAnnotationCurrent ==
    (/\ IsCycle /\ last.fails = {}
     /\ Pre.sub.placement = NoPlacement
     /\ last.allDpls = AnnotationKeys(Pre.sub)
     /\ Pre.dpl # <<>>
     /\ Pre.sub.uid \in Pre.dpl[1].owners)
        => /\ dpls[PrimaryOf(CycleSub)] = <<>>
           /\ CallsWhere("delete", "Deployable", PrimaryOf(CycleSub)) # {}

C6_Witness ==
    /\ IsCycle /\ last.fails = {}
    /\ Pre.sub.placement = NoPlacement
    /\ last.allDpls = AnnotationKeys(Pre.sub)
    /\ Pre.dpl # <<>>
    /\ Pre.sub.uid \in Pre.dpl[1].owners
    /\ dpls[PrimaryOf(CycleSub)] = <<>>

\* the keys of the catalog artifacts that pass the subscription's filter
MatchedKeys(sub) ==
    {ArtifactKey(d) : d \in {x \in catalog : checkDeployableBySubcriptionPackageFilter(sub, x)}}

\* C7: after any cycle that returns without error, the stored bookkeeping
\* annotation, split on commas, is exactly the set of keys of the catalog
\* artifacts that pass the filter, for every outcome of the listing and of the
\* metadata update.
C7_BookkeepingClosure ==
    (IsCycle /\ ~last.err)
        => AnnotationKeys(subs[CycleSub][1]) = MatchedKeys(subs[CycleSub][1])

\* C8: a cycle updates the subscription metadata exactly once when the set of
\* keys its listing matched differs from the set of keys in the bookkeeping
\* annotation, and not at all when the two sets are equal, whatever the order
\* or repetition of the keys in the annotation.
C8_UpdateCount ==
    IsCycle =>
        Cardinality(CallsWhere("update", "Subscription", CycleSub))
            = IF last.allDpls # Range(Pre.sub.annoDeployables) THEN 1 ELSE 0

C8_Witness ==
    /\ IsCycle
    /\ Len(Pre.sub.annoDeployables) > Cardinality(Range(Pre.sub.annoDeployables))
    /\ last.allDpls = Range(Pre.sub.annoDeployables)
    /\ CallsWhere("update", "Subscription", CycleSub) = {}

\* the "/" entries applied one after the other, each to the result of the
\* previous one
RECURSIVE GlobalsApplied(_, _)
GlobalsApplied(doc, globals) ==
    IF globals = <<>> THEN doc
    ELSE GlobalsApplied(OverrideTemplate(doc, Head(globals).clusterOverrides)[1],
                        Tail(globals))

IsGlobal(ov) == ov.clusterName = "/"
IsNamed(ov) == ov.clusterName # "/"

\* C9: the synthesized Deployable's overrides are the entries whose
\* clusterName is not "/", in input order and verbatim, and its template is
\* the clone with the "/" entries applied in input order.
C9_OverrideSplit ==
    (IsCycle /\ last.desired # <<>>)
        => LET dpl == last.desired[1]
               ovs == Pre.sub.overrides
               chng == IF "getChannel" \in last.fails THEN "" ELSE FormatInt(channel)
           IN /\ dpl.overrides = SelectSeq(ovs, IsNamed)
              /\ \A i \in DOMAIN dpl.overrides : dpl.overrides[i].clusterName # "/"
              /\ Unmarshal(dpl.template)
                    = GlobalsApplied(TemplateClone(Pre.sub, CycleSub, chng),
                                     SelectSeq(ovs, IsGlobal))

C9_Witness ==
    /\ IsCycle /\ last.desired # <<>>
    /\ Pre.sub.overrides = <<OvGlobal2, OvCluster, OvGlobal1>>
    /\ last.desired[1].overrides = <<OvCluster>>
    /\ Unmarshal(last.desired[1].template).package = "p1"
    /\ dpls[PrimaryOf(CycleSub)] # <<>>
    /\ SpecOf(dpls[PrimaryOf(CycleSub)][1]) = SpecOf(last.desired[1])

ReachedTargetStep == last.exit \in {"target", "get", "create", "update", "status"}

\* the target subscription is there and its Deployable cannot be synthesized
TargetSynthesisFails ==
    /\ subs[RolloutTarget] # <<>>
    /\ prepareDeployableForSubscription(subs[RolloutTarget][1], CycleSub, channel, FALSE) = <<>>

\* C10: with a rollout-target annotation naming an existing subscription whose
\* Deployable can be synthesized, a cycle that reaches the target step leaves a Deployable named
\* <name>-target-deployable whose template is the one synthesized from the
\* target subscription, creating it when absent; once the target subscription
\* is gone, the cycle issues no call on the target Deployable, the target step
\* returns no error and the primary reconciliation proceeds.
C10_RollingUpdate ==
    (/\ IsCycle /\ last.fails = {} /\ ReachedTargetStep
     /\ Pre.sub.annoRollingTarget # ""
     /\ ~TargetSynthesisFails)
        => LET t == Pre.sub.annoRollingTarget
               name == CycleSub \o "-target-deployable"
           IN IF subs[t] # <<>>
              THEN /\ last.target # <<>>
                   /\ last.target[1].name = name
                   /\ Unmarshal(last.target[1].template)
                         = TemplateClone(subs[t][1], CycleSub, FormatInt(channel))
                   /\ dpls[name] # <<>>
                   /\ SpecOf(dpls[name][1]).overrides = last.target[1].overrides
                   /\ Unmarshal(dpls[name][1].template) = Unmarshal(last.target[1].template)
                   /\ Pre.tdpl = <<>> => CallsWhere("create", "Deployable", name) # {}
              ELSE /\ DeployableCallsOn(name) = {}
                   /\ dpls[name] = Pre.tdpl
                   /\ last.target = <<>>
                   /\ last.exit \in {"create", "update", "status"}

C10_Witness ==
    /\ IsCycle /\ last.fails = {}
    /\ Pre.sub.annoRollingTarget = RolloutTarget
    /\ subs[RolloutTarget] = <<>>
    /\ Pre.tdpl # <<>>
    /\ Pre.tdpl[1].creator = CycleSub
    /\ last.exit = "status"
    /\ ~last.err

----------------------------------------------------------------------------
(* Status aggregation *)

\* the cycle went through status aggregation to its end
Aggregated == IsCycle /\ last.exit = "status" /\ ~last.err /\ last.fails = {}
\* the Deployable the aggregation read
Found == Pre.dpl[1]
Reported == Found.status.propagatedStatus
StatusAfter == subs[CycleSub][1].status

\* the "/" entry of the status decoded from a payload: null (<<>>) when the
\* cluster reports no payload or the payload has no "/" entry
Lifted(payload) == IF payload = <<>> THEN <<>> ELSE payload[1].slash

\* C11: after a status aggregation with a non-Failed Deployable, the entry of
\* each cluster of the Deployable's per-cluster status is the "/" entry of the
\* status decoded from the cluster's payload when the cluster is Deployed, and
\* an empty, non-null entry for any other phase.
C11_RollupValues ==
    (Aggregated /\ Found.status.phase # DeployableFailed)
        => /\ ~StatusAfter.statuses.nil
           /\ DOMAIN StatusAfter.statuses.m = DOMAIN Reported
           /\ \A k \in DOMAIN Reported :
                 StatusAfter.statuses.m[k] =
                     IF Reported[k].phase = DeployableDeployed
                     THEN Lifted(Reported[k].resourceStatus)
                     ELSE PerClusterEmpty

C11_Witness ==
    /\ Aggregated
    /\ Found.status = StatusTwoClusters
    /\ CallsWhere("update", "SubscriptionStatus", CycleSub) # {}
    /\ StatusAfter.statuses.m["c1"] = PerClusterSubscribed
    /\ StatusAfter.statuses.m["c2"] = PerClusterEmpty
    /\ StatusAfter.phase = SubscriptionPropagated

\* C12: after every status aggregation that completes with a non-Failed
\* Deployable, the keys of the subscription's per-cluster statuses are exactly
\* the keys of the Deployable's per-cluster status; a key the subscription
\* status had before and the Deployable no longer reports is gone.
C12_RollupRecomputed ==
    (Aggregated /\ Found.status.phase # DeployableFailed)
        => /\ ~StatusAfter.statuses.nil
           /\ DOMAIN StatusAfter.statuses.m = DOMAIN Reported
           /\ \A k \in DOMAIN Pre.sub.status.statuses.m :
                 k \notin DOMAIN Reported => k \notin DOMAIN StatusAfter.statuses.m

C12_Witness ==
    /\ Aggregated /\ Found.status.phase # DeployableFailed
    /\ "c1" \in DOMAIN Pre.sub.status.statuses.m
    /\ "c1" \notin DOMAIN Reported
    /\ "c1" \notin DOMAIN StatusAfter.statuses.m
    /\ CallsWhere("update", "SubscriptionStatus", CycleSub) # {}

\* C13: when status aggregation runs on a Failed Deployable, the per-cluster
\* statuses are cleared and the step does not set the phase to Propagated.
C13_FailedShortCircuit ==
    (Aggregated /\ Found.status.phase = DeployableFailed)
        => /\ StatusAfter.statuses = NilMap
           /\ Pre.sub.status.phase # SubscriptionPropagated
                 => StatusAfter.phase # SubscriptionPropagated

\* a Deployed cluster of the Deployable reports a payload that does not decode
UndecodablePayload ==
    \E k \in DOMAIN Reported :
        /\ Reported[k].phase = DeployableDeployed
        /\ Reported[k].resourceStatus # <<>>
        /\ ~Reported[k].resourceStatus[1].decodes

\* C14: when status aggregation meets a Deployed cluster whose payload does not
\* decode, the cycle returns an error, issues no status write and leaves the
\* subscription status unchanged, whatever the other clusters report.
C14_DecodeFailure ==
    (/\ IsCycle /\ last.exit = "status"
     /\ Found.status.phase # DeployableFailed
     /\ UndecodablePayload)
        => /\ last.err
           /\ CallsWhere("update", "SubscriptionStatus", CycleSub) = {}
           /\ StatusAfter = Pre.sub.status

C14_Witness ==
    /\ IsCycle /\ last.exit = "status"
    /\ Found.status = StatusGarbage
    /\ last.err
    /\ StatusAfter = Pre.sub.status
    /\ "c2" \in DOMAIN Pre.sub.status.statuses.m
    /\ Pre.sub.status.statuses.m["c2"] # PerClusterSubscribed

----------------------------------------------------------------------------
(* Error handling *)

\* the calls whose failure the cycle is documented to swallow
SwallowedSites == {"getChannel", "getTargetChannel", "statusUpdate"}

\* C15: every failing store call of a cycle other than the channel-generation
\* lookup and the status-aggregation write makes the cycle return an error.
C15_ErrorPropagation ==
    (IsCycle /\ last.fails \ SwallowedSites # {}) => last.err

----------------------------------------------------------------------------
(* Package filter *)

Listed == last.kind = "filter"
Matched(d) == ArtifactKey(d) \in last.allDpls
Required == Pre.sub.packageFilter[1].annotations

\* C16: a subscription that names a single package, with or without a
\* packageFilter block, never matches an artifact with a different name.
C16_PackageNameRule ==
    Listed => \A d \in catalog :
                  (Pre.sub.package # "" /\ d.name # Pre.sub.package) => ~Matched(d)

\* C17: a matched artifact has every key the filter requires in its merged
\* annotations, with the required value; an absent key never matches, also
\* when the required value is the empty string.
C17_AnnotationFilter ==
    (Listed /\ Pre.sub.packageFilter # <<>>)
        => \A d \in catalog :
              Matched(d) => \A k \in DOMAIN Required :
                               /\ k \in DOMAIN MergedAnnotations(d)
                               /\ MergedAnnotations(d)[k] = Required[k]

\* C18: for a key the artifact itself carries, whatever its value, the
\* artifact-level value is the one compared with the filter: a matched artifact
\* has the required value at artifact level for each such key.
C18_TemplateFallbackOnly ==
    (Listed /\ Pre.sub.packageFilter # <<>>)
        => \A d \in catalog :
              Matched(d) => \A k \in DOMAIN Required \cap DOMAIN d.annotations :
                               d.annotations[k] = Required[k]

----------------------------------------------------------------------------
(* Status writes and the target step *)

FailedStatusWrite == Call("update", "SubscriptionStatus", CycleSub, FALSE)

\* C19: a failing status write at the end of status aggregation leaves the
\* cycle successful; a failing status write of teardown makes the cycle return
\* an error.
C19_StatusWriteAsymmetry ==
    IsCycle => /\ "statusUpdate" \in last.fails
                  => (~last.err /\ last.exit = "status")
               /\ "tdStatus" \in last.fails
                  => (last.err /\ last.exit = "teardown")

C19_Witness ==
    /\ IsCycle /\ last.exit = "status"
    /\ last.fails = {"statusUpdate"}
    /\ last.calls # <<>> /\ last.calls[Len(last.calls)] = FailedStatusWrite
    /\ ~last.err
    /\ StatusAfter = Pre.sub.status

\* the store calls of the target step whose failure the step returns
TargetSites == {"getTargetSub", "getTargetDpl", "createTarget", "updateTarget"}

\* C20: a cycle whose target step fails (a failing fetch of the target
\* subscription, a failing fetch, create or update of the target Deployable, or
\* a target Deployable that cannot be synthesized) returns an error, issues no
\* create or update on the primary Deployable and no status write, and issues
\* nothing that undoes a write on the target Deployable.
C20_TargetStepAborts ==
    IsCycle =>
        /\ last.fails \cap TargetSites # {} => last.exit = "target"
        /\ (ReachedTargetStep /\ Pre.sub.annoRollingTarget = RolloutTarget
            /\ "getTargetSub" \notin last.fails /\ TargetSynthesisFails)
              => last.exit = "target"
        /\ last.exit = "target"
              => /\ last.err
                 /\ DeployableCallsOn(PrimaryOf(CycleSub)) = {}
                 /\ dpls[PrimaryOf(CycleSub)] = Pre.dpl
                 /\ CallsWhere("update", "SubscriptionStatus", CycleSub) = {}
                 /\ StatusAfter = Pre.sub.status
                 /\ CallsWhere("delete", "Deployable", TargetOf(CycleSub)) = {}
                 /\ "raceTarget" \notin last.fails => dpls[TargetOf(CycleSub)] = Pre.tdpl

C20_Witness ==
    /\ IsCycle /\ last.exit = "target"
    /\ last.fails = {"updateTarget"}
    /\ last.err
    /\ Pre.tdpl # <<>>
    /\ dpls[TargetOf(CycleSub)] = Pre.tdpl
    /\ dpls[PrimaryOf(CycleSub)] = Pre.dpl
    /\ last.calls = <<Call("update", "Deployable", TargetOf(CycleSub), FALSE)>>

----------------------------------------------------------------------------
(* What reaches the stored primary Deployable *)

\* a cycle without a failing call that returned no error and issued no write
QuietCycle ==
    IsCycle /\ last.fails = {} /\ ~last.err /\ last.exit = "status" /\ last.calls = <<>>

Stored == dpls[PrimaryOf(CycleSub)]

\* C26: once the error-free cycles after a change of the placement have nothing
\* left to write, the placement of the stored primary Deployable is the
\* subscription's placement.
C26_PlacementReachesDeployable ==
    QuietCycle => Stored[1].placement = subs[CycleSub][1].placement

\* C27: after an error-free cycle that produced a target Deployable, the stored
\* primary Deployable carries the rolling-update-target annotation naming the
\* target Deployable, whether the cycle created the primary or found it.
C27_PrimaryPointsAtTarget ==
    (IsCycle /\ last.fails = {} /\ ~last.err /\ last.target # <<>>)
        => /\ Stored # <<>>
           /\ Stored[1].annotations.rolling = last.target[1].name

\* C25: at the end of a cycle that returned no error, a stored phase of
\* Propagated goes with a primary Deployable in the store; an error-free
\* teardown never leaves the phase at Propagated.
C25_PropagatedImpliesDeployable ==
    (IsCycle /\ ~last.err)
        => /\ StatusAfter.phase = SubscriptionPropagated => Stored # <<>>
           /\ last.exit = "teardown" => StatusAfter.phase # SubscriptionPropagated

\* C25 (amended): the same, for the cycles that go past the annotation step.
C25_PropagatedAfterFullCycle ==
    (IsCycle /\ ~last.err /\ last.exit # "annotation")
        => /\ StatusAfter.phase = SubscriptionPropagated => Stored # <<>>
           /\ last.exit = "teardown" => StatusAfter.phase # SubscriptionPropagated

C25_Witness ==
    /\ IsCycle /\ ~last.err /\ last.exit = "teardown"
    /\ Pre.sub.status.phase = SubscriptionPropagated
    /\ Pre.dpl # <<>> /\ Stored = <<>>
    /\ StatusAfter.phase = ""

----------------------------------------------------------------------------
(* The status write of status aggregation *)

\* a status without its timestamp
Core(st) ==
    [phase |-> st.phase, message |-> st.message, reason |-> st.reason,
     statuses |-> st.statuses]

\* the status the aggregation computes from the Deployable it found
Computed ==
    [phase |-> SubscriptionPropagated, message |-> "", reason |-> "",
     statuses |-> IF Found.status.phase = DeployableFailed THEN NilMap
                  ELSE MakeMap([k \in DOMAIN Reported |->
                                   IF Reported[k].phase = DeployableDeployed
                                   THEN Lifted(Reported[k].resourceStatus)
                                   ELSE PerClusterEmpty])]

StatusWritten == CallsWhere("update", "SubscriptionStatus", CycleSub) # {}

\* C22: status aggregation issues a status write exactly when the computed
\* status differs from the current one, the timestamp left out; a write that
\* succeeds stores the computed status with the current time, and without a
\* write the stored status, timestamp included, is unchanged.
C22_StatusWriteOnChange ==
    (IsCycle /\ last.exit = "status" /\ ~last.err)
        => /\ StatusWritten <=> Computed # Core(Pre.sub.status)
           /\ (StatusWritten /\ "statusUpdate" \notin last.fails)
                 => /\ Core(StatusAfter) = Computed
                    /\ StatusAfter.lastUpdateTime = Now
           /\ ~StatusWritten => StatusAfter = Pre.sub.status

C22_Witness ==
    /\ IsCycle /\ last.exit = "status" /\ ~last.err /\ last.fails = {}
    /\ Pre.sub.status.phase = SubscriptionPropagated
    /\ Pre.sub.status.lastUpdateTime = Earlier
    /\ Core(Pre.sub.status).statuses # Computed.statuses
    /\ StatusWritten
    /\ StatusAfter.lastUpdateTime = Now

----------------------------------------------------------------------------
(* Convergence *)

----------------------------------------------------------------------------
(* Writers of a Deployable *)

\* the Deployable of this name as the cycle found it
Before(name) == IF name = PrimaryOf(CycleSub) THEN Pre.dpl ELSE Pre.tdpl

\* C24: a Deployable that a cycle creates, updates or deletes was not written
\* by a cycle of another subscription before: it is new, or it was created by
\* the subscription of the cycle.
C24_DisjointWriteSets ==
    IsCycle => \A i \in DOMAIN last.calls :
                  (last.calls[i].kind = "Deployable" /\ last.calls[i].ok)
                     => \/ Before(last.calls[i].name) = <<>>
                        \/ Before(last.calls[i].name)[1].creator = CycleSub

----------------------------------------------------------------------------
(* Concurrent writers *)

FailedUpdates(name) ==
    {i \in CallsWhere("update", "Deployable", name) : ~last.calls[i].ok}

\* C21: when another writer changes a Deployable between the cycle's fetch and
\* its update, the update fails, it is issued once, the cycle returns an error
\* and the Deployable in the store is as the other writer left it.
C21_NoLostUpdate ==
    IsCycle =>
        /\ "racePrimary" \in last.fails
              => /\ last.err /\ last.exit = "update"
                 /\ Cardinality(DeployableCallsOn(PrimaryOf(CycleSub))) = 1
                 /\ Cardinality(FailedUpdates(PrimaryOf(CycleSub))) = 1
                 /\ Stored = <<OtherWriter(Pre.dpl[1])>>
        /\ "raceTarget" \in last.fails
              => /\ last.err /\ last.exit = "target"
                 /\ Cardinality(DeployableCallsOn(TargetOf(CycleSub))) = 1
                 /\ Cardinality(FailedUpdates(TargetOf(CycleSub))) = 1
                 /\ dpls[TargetOf(CycleSub)] = <<OtherWriter(Pre.tdpl[1])>>

C21_Witness ==
    /\ IsCycle /\ last.fails = {"racePrimary"}
    /\ last.err /\ last.exit = "update"
    /\ Stored # <<>> /\ Stored[1].status # Pre.dpl[1].status
    /\ Stored[1].template = Pre.dpl[1].template
    /\ last.desired # <<>> /\ last.desired[1].template # Stored[1].template

====
